---- MODULE Spec2Model ----
(***************************************************************************)
(* A model of swhid-rs: the git-compatible hashing of files, symlinks and  *)
(* directory trees (src/src/hash.rs, content.rs, directory.rs) and the     *)
(* path dispatcher (src/src/computer.rs), run against a small model of a   *)
(* POSIX filesystem.                                                       *)
(*                                                                         *)
(* Byte strings are sequences of integers 0..255.  A SHA-1 digest cannot   *)
(* be computed here, so it is kept symbolic and collision free: the digest *)
(* of a byte string is the token <<"sha1", preimage>>, which stands for 20 *)
(* bytes.  Hashed data is therefore a sequence of tokens, each a plain     *)
(* byte <<"b", n>> or such a digest, and a [u8; 20] is a token sequence of *)
(* 20 bytes: one digest token, or twenty plain bytes.                      *)
(***************************************************************************)
EXTENDS Integers, Sequences, FiniteSets, TLC

VARIABLES fs, order, dir, last

vars == <<fs, order, dir, last>>

(***************************************************************************)
(* Bounds of the model.                                                    *)
(***************************************************************************)
\* nodes the filesystem holds besides its root
MaxNodes == 2
\* depth of the deepest node below the root
MaxDepth == 2
\* symbolic links one path resolution of the host follows before ELOOP
MaxHops == 3
\* nested compute_swhid calls the stack of the process holds
MaxStack == 4

(***************************************************************************)
(* Bytes and tokens.                                                       *)
(***************************************************************************)
SP == 32
NUL == 0
SLASH == 47
DIGEST_LEN == 20

Lit(bytes) == [i \in 1..Len(bytes) |-> <<"b", bytes[i]>>]

TokLen(tok) == IF tok[1] = "b" THEN 1 ELSE DIGEST_LEN

RECURSIVE ByteLen(_)
ByteLen(toks) == IF toks = <<>> THEN 0 ELSE TokLen(Head(toks)) + ByteLen(Tail(toks))

\* format!("{}", n) of an unsigned integer: ASCII decimal, no leading zeros
RECURSIVE Dec(_)
Dec(n) == IF n < 10 THEN <<48 + n>> ELSE Append(Dec(n \div 10), 48 + (n % 10))

\* Ord::cmp of two byte slices: -1, 0 or 1, byte-lexicographic, a proper prefix first
RECURSIVE cmp_bytes(_, _)
cmp_bytes(a, b) ==
    IF a = <<>> THEN (IF b = <<>> THEN 0 ELSE -1)
    ELSE IF b = <<>> THEN 1
    ELSE IF Head(a) < Head(b) THEN -1
    ELSE IF Head(a) > Head(b) THEN 1
    ELSE cmp_bytes(Tail(a), Tail(b))

RECURSIVE BitAnd(_, _)
BitAnd(a, b) ==
    IF a = 0 \/ b = 0 THEN 0
    ELSE (a % 2) * (b % 2) + 2 * BitAnd(a \div 2, b \div 2)

(***************************************************************************)
(* to_string_lossy / String::from_utf8_lossy of the standard library:      *)
(* valid UTF-8 is copied, every maximal invalid part becomes U+FFFD        *)
(* (EF BF BD).                                                             *)
(***************************************************************************)
REPLACEMENT == <<239, 191, 189>>

IsCont(b) == b >= 128 /\ b <= 191

utf8_char_width(b) ==
    IF b < 128 THEN 1
    ELSE IF b >= 194 /\ b <= 223 THEN 2
    ELSE IF b >= 224 /\ b <= 239 THEN 3
    ELSE IF b >= 240 /\ b <= 244 THEN 4
    ELSE 0

\* the second byte a lead byte of width 3 or 4 admits
SecondOk(lead, b) ==
    \/ lead = 224 /\ b >= 160 /\ b <= 191
    \/ lead >= 225 /\ lead <= 236 /\ IsCont(b)
    \/ lead = 237 /\ b >= 128 /\ b <= 159
    \/ lead >= 238 /\ lead <= 239 /\ IsCont(b)
    \/ lead = 240 /\ b >= 144 /\ b <= 191
    \/ lead >= 241 /\ lead <= 243 /\ IsCont(b)
    \/ lead = 244 /\ b >= 128 /\ b <= 143

\* bytes of the sequence starting at i that form one valid character (0: none),
\* and the bytes an invalid part starting at i takes
CharAt(bytes, i) ==
    LET Get(k) == IF k <= Len(bytes) THEN bytes[k] ELSE 0
        w == utf8_char_width(bytes[i])
    IN  IF w = 1 THEN [valid |-> TRUE, n |-> 1]
        ELSE IF w = 2 THEN
            IF IsCont(Get(i + 1)) THEN [valid |-> TRUE, n |-> 2]
            ELSE [valid |-> FALSE, n |-> 1]
        ELSE IF w = 3 THEN
            IF ~SecondOk(bytes[i], Get(i + 1)) THEN [valid |-> FALSE, n |-> 1]
            ELSE IF ~IsCont(Get(i + 2)) THEN [valid |-> FALSE, n |-> 2]
            ELSE [valid |-> TRUE, n |-> 3]
        ELSE IF w = 4 THEN
            IF ~SecondOk(bytes[i], Get(i + 1)) THEN [valid |-> FALSE, n |-> 1]
            ELSE IF ~IsCont(Get(i + 2)) THEN [valid |-> FALSE, n |-> 2]
            ELSE IF ~IsCont(Get(i + 3)) THEN [valid |-> FALSE, n |-> 3]
            ELSE [valid |-> TRUE, n |-> 4]
        ELSE [valid |-> FALSE, n |-> 1]

RECURSIVE LossyFrom(_, _)
LossyFrom(bytes, i) ==
    IF i > Len(bytes) THEN <<>>
    ELSE LET c == CharAt(bytes, i)
         IN  (IF c.valid THEN SubSeq(bytes, i, i + c.n - 1) ELSE REPLACEMENT)
                 \o LossyFrom(bytes, i + c.n)

to_string_lossy(bytes) == LossyFrom(bytes, 1)

(***************************************************************************)
(* hash.rs                                                                 *)
(***************************************************************************)
BLOB == <<98, 108, 111, 98>>
TREE == <<116, 114, 101, 101>>

\* The collision detection of sha1_checked: a message that holds a block with
\* the disturbance vectors of a known attack is flagged; the bytes "shat" stand
\* for such a block.
NearCollisionBlock == <<115, 104, 97, 116>>

detect_collision(toks) ==
    \E i \in 1..(Len(toks) - Len(NearCollisionBlock) + 1) :
        \A j \in 1..Len(NearCollisionBlock) : toks[i + j - 1] = <<"b", NearCollisionBlock[j]>>

\* Sha1::new(); update(..); finalize(): kept symbolic.  finalize() always hands
\* out 20 bytes; for a flagged message they are the mitigated digest of the
\* default safe_hash setting, not the SHA-1 of the message.
Sha1(toks) ==
    IF detect_collision(toks) THEN <<<<"sha1-mitigated", toks>>>> ELSE <<<<"sha1", toks>>>>

git_object_header(git_type, length) ==
    Lit(git_type) \o Lit(<<SP>>) \o Lit(Dec(length)) \o Lit(<<NUL>>)

hash_git_object(git_type, data) ==
    Sha1(git_object_header(git_type, ByteLen(data)) \o data)

\* sha1_git_hash with a header that lacks its NUL
sha1_git_hash_no_nul(data) ==
    Sha1(Lit(BLOB) \o Lit(<<SP>>) \o Lit(Dec(Len(data))) \o Lit(data))

sha1_git_hash(data) ==
    Sha1(Lit(BLOB) \o Lit(<<SP>>) \o Lit(Dec(Len(data))) \o Lit(<<NUL>>) \o Lit(data))

sha1_hash(data) == Sha1(Lit(data))

\* [0u8; 20]
ZERO_HASH == [i \in 1..DIGEST_LEN |-> <<"b", 0>>]

(***************************************************************************)
(* The host filesystem.  fs maps every existing absolute path (a sequence  *)
(* of names, <<>> the root) to its node: the st_mode lstat reports, the    *)
(* bytes it holds (a file's content, a link's target string) and whether   *)
(* the host fails to read it (EIO).  order is the order in which the host  *)
(* hands out the children of a directory, which no caller controls.        *)
(***************************************************************************)
S_IFMT == \o170000
S_IFDIR == \o040000
S_IFREG == \o100000
S_IFLNK == \o120000
S_IFIFO == \o010000

N_dir == <<100, 105, 114>>
N_dir_txt == <<100, 105, 114, 46, 116, 120, 116>>
N_ff == <<255>>
N_fffd == <<239, 191, 189>>
T_abs_ff == <<47, 255>>
P_star_txt == <<42, 46, 116, 120, 116>>

\* the names, files and link targets the environment uses, and the exclusion
\* lists the library is called with: "dir", "dir.txt", the name FF that is no
\* UTF-8 and U+FFFD; a regular file holding "hi" and an empty executable; the
\* targets "dir.txt" and "/" FF; the lists [] and ["*.txt", U+FFFD]
Names == {N_dir, N_dir_txt, N_ff, N_fffd}
Files == {[mode |-> \o100644, data |-> <<104, 105>>], [mode |-> \o100755, data |-> <<>>]}
Targets == {N_dir_txt, T_abs_ff}
PatternLists == {<<>>, <<P_star_txt, N_fffd>>}

Root == <<>>

\* eio of a directory: <<k>> when the host hands out k of its entries and then
\* reports an error for the next one (readdir fails with EIO), NoEio otherwise
NoEio == <<>>
RootNode == [mode |-> \o040755, data |-> <<>>, bad |-> FALSE, eio |-> NoEio]

Parent(p) == SubSeq(p, 1, Len(p) - 1)
Exists(p) == p \in DOMAIN fs
FileType(node) == node.mode - (node.mode % \o10000)
ChildNames(d) == {p[Len(p)] : p \in {q \in DOMAIN fs : Len(q) = Len(d) + 1 /\ Parent(q) = d}}

\* the components of a path string, and whether it starts at the root
RECURSIVE Components(_)
Components(bytes) ==
    IF bytes = <<>> THEN <<>>
    ELSE IF Head(bytes) = SLASH THEN Components(Tail(bytes))
    ELSE LET n == IF \E i \in 1..Len(bytes) : bytes[i] = SLASH
                  THEN (CHOOSE i \in 1..Len(bytes) :
                            bytes[i] = SLASH /\ \A j \in 1..(i - 1) : bytes[j] # SLASH) - 1
                  ELSE Len(bytes)
         IN  <<SubSeq(bytes, 1, n)>> \o Components(SubSeq(bytes, n + 1, Len(bytes)))

is_relative(target) == target = <<>> \/ Head(target) # SLASH

\* join that takes a relative path from the root, not from the base
join_from_root(base, target) == Components(target)

\* Path::join: an absolute path replaces the base
join(base, target) == IF is_relative(target) THEN base \o Components(target) ELSE Components(target)

\* The path resolution of the host: walk `rest` from the existing directory
\* `cur`; a symbolic link met on the way is followed, the last component only
\* when followLast; more than MaxHops links give ELOOP.
RECURSIVE Namei(_, _, _, _)
Namei(cur, rest, followLast, hops) ==
    IF rest = <<>> THEN [ok |-> TRUE, at |-> cur]
    ELSE IF FileType(fs[cur]) # S_IFDIR THEN [ok |-> FALSE, at |-> cur]
    ELSE LET c == Head(rest)
             next == Append(cur, c)
         IN  IF c = <<46>> THEN Namei(cur, Tail(rest), followLast, hops)
             ELSE IF c = <<46, 46>> THEN Namei(Parent(cur), Tail(rest), followLast, hops)
             ELSE IF ~Exists(next) THEN [ok |-> FALSE, at |-> cur]
             ELSE IF FileType(fs[next]) = S_IFLNK /\ (Tail(rest) # <<>> \/ followLast) THEN
                 IF hops = 0 THEN [ok |-> FALSE, at |-> cur]
                 ELSE Namei(IF is_relative(fs[next].data) THEN cur ELSE Root,
                            Components(fs[next].data) \o Tail(rest), followLast, hops - 1)
             ELSE Namei(next, Tail(rest), followLast, hops)

\* stat(2) and lstat(2): the node a path names
Stat(path) == Namei(Root, path, TRUE, MaxHops)
Lstat(path) == Namei(Root, path, FALSE, MaxHops)

\* Path::is_symlink, Path::is_file, Path::is_dir: false when the call fails
is_symlink(path) == LET r == Lstat(path) IN r.ok /\ FileType(fs[r.at]) = S_IFLNK
is_file(path) == LET r == Stat(path) IN r.ok /\ FileType(fs[r.at]) = S_IFREG
is_dir(path) == LET r == Stat(path) IN r.ok /\ FileType(fs[r.at]) = S_IFDIR

\* fs::read_link: the target string of a symbolic link
read_link(path) ==
    LET r == Lstat(path)
    IN  IF r.ok /\ FileType(fs[r.at]) = S_IFLNK /\ ~fs[r.at].bad
        THEN [st |-> "ok", data |-> fs[r.at].data]
        ELSE [st |-> "err", err |-> "Io"]

\* fs::read: the whole content of a file; opening a FIFO nobody writes to blocks
read(path) ==
    LET r == Stat(path)
    IN  IF ~r.ok THEN [st |-> "err", err |-> "Io"]
        ELSE IF FileType(fs[r.at]) = S_IFIFO THEN [st |-> "blocked"]
        ELSE IF FileType(fs[r.at]) = S_IFREG /\ ~fs[r.at].bad
        THEN [st |-> "ok", data |-> fs[r.at].data]
        ELSE [st |-> "err", err |-> "Io"]

\* the names of a set as the host lists them: in byte order, or in the reverse
Orders == {"asc", "desc"}

RECURSIVE HostList(_)
HostList(S) ==
    IF S = {} THEN <<>>
    ELSE LET m == CHOOSE x \in S : \A y \in S :
                      IF order = "asc" THEN cmp_bytes(x, y) <= 0 ELSE cmp_bytes(x, y) >= 0
         IN  <<m>> \o HostList(S \ {m})

\* the entries the iterator yields as Ok before readdir fails
Handed(names, eio) == IF eio = NoEio THEN names ELSE SubSeq(names, 1, eio[1])

\* fs::read_dir(path)?.collect(): the names of the children of a directory, in
\* the order of the host; `failed` when an Err ends the collected entries
read_dir(path) ==
    LET r == Stat(path)
    IN  IF r.ok /\ FileType(fs[r.at]) = S_IFDIR /\ ~fs[r.at].bad
        THEN [st |-> "ok", names |-> Handed(HostList(ChildNames(r.at)), fs[r.at].eio),
              failed |-> fs[r.at].eio # NoEio]
        ELSE [st |-> "err", err |-> "Io"]

(***************************************************************************)
(* content.rs                                                              *)
(***************************************************************************)
Content_from_data(data) == [data |-> data, length |-> Len(data), sha1_git |-> sha1_git_hash(data)]

Content_from_file(path) ==
    LET r == read(path)
    IN  IF r.st = "ok" THEN [st |-> "ok", content |-> Content_from_data(r.data)] ELSE r

\* Swhid::new(object_type, hash)
Swhid_new(object_type, hash) == [version |-> 1, object_type |-> object_type, hash |-> hash]

Content_swhid(content) == Swhid_new("cnt", content.sha1_git)

(***************************************************************************)
(* swhid.rs: the identifier (version, kind, digest) and its string form    *)
(* "swh:1:<code>:<40 lowercase hex>".  A string is a sequence of tokens: a *)
(* character <<"b", n>>, or <<"hex", d>>, the 40 hex characters of the     *)
(* symbolic digest d.                                                      *)
(***************************************************************************)
ObjectTypes == {"cnt", "dir", "rev", "rel", "snp"}

ObjectType_as_str(object_type) ==
    CASE object_type = "cnt" -> <<99, 110, 116>>
      [] object_type = "dir" -> <<100, 105, 114>>
      [] object_type = "rev" -> <<114, 101, 118>>
      [] object_type = "rel" -> <<114, 101, 108>>
      [] object_type = "snp" -> <<115, 110, 112>>

\* hex in upper case
HexChar_upper(n) == IF n < 10 THEN 48 + n ELSE 55 + n

\* one nibble as a lowercase hex character, and the value of a hex character
\* (16 for any other character)
HexChar(n) == IF n < 10 THEN 48 + n ELSE 87 + n
HexVal(c) ==
    IF c >= 48 /\ c <= 57 THEN c - 48
    ELSE IF c >= 97 /\ c <= 102 THEN c - 87
    ELSE 16

RECURSIVE hex_encode(_)
hex_encode(hash) ==
    IF hash = <<>> THEN <<>>
    ELSE LET t == Head(hash)
         IN  (IF t[1] = "b"
              THEN <<<<"b", HexChar(t[2] \div 16)>>, <<"b", HexChar(t[2] % 16)>>>>
              ELSE <<<<"hex", t>>>>) \o hex_encode(Tail(hash))

RECURSIVE hex_decode(_)
hex_decode(chars) ==
    IF chars = <<>> THEN <<>>
    ELSE IF Head(chars)[1] = "hex" THEN <<Head(chars)[2]>> \o hex_decode(Tail(chars))
    ELSE <<<<"b", 16 * HexVal(chars[1][2]) + HexVal(chars[2][2])>>>>
             \o hex_decode(SubSeq(chars, 3, Len(chars)))

\* the characters a token sequence stands for
RECURSIVE StrLen(_)
StrLen(chars) ==
    IF chars = <<>> THEN 0
    ELSE (IF Head(chars)[1] = "hex" THEN 2 * DIGEST_LEN ELSE 1) + StrLen(Tail(chars))

\* s.split(':')
RECURSIVE Split(_)
Split(chars) ==
    LET Colons == {i \in 1..Len(chars) : chars[i] = <<"b", 58>>}
        i == CHOOSE k \in Colons : \A j \in Colons : k <= j
    IN  IF Colons = {} THEN <<chars>>
        ELSE <<SubSeq(chars, 1, i - 1)>> \o Split(SubSeq(chars, i + 1, Len(chars)))

\* Display for Swhid (to_string)
Swhid_to_string(swhid) ==
    Lit(<<115, 119, 104, 58>>) \o Lit(Dec(swhid.version)) \o Lit(<<58>>)
        \o Lit(ObjectType_as_str(swhid.object_type)) \o Lit(<<58>>) \o hex_encode(swhid.hash)

Swhid_from_string(s) ==
    LET parts == Split(s)
        Err(e) == [st |-> "err", err |-> e]
        Kinds == {t \in ObjectTypes : Lit(ObjectType_as_str(t)) = parts[3]}
        IsHex(t) == t[1] = "hex" \/ HexVal(t[2]) < 16
    IN  IF Len(parts) # 4 THEN Err("InvalidFormat")
        ELSE IF parts[1] # Lit(<<115, 119, 104>>) THEN Err("InvalidNamespace")
        ELSE IF parts[2] # Lit(<<49>>) THEN Err("InvalidVersion")
        ELSE IF Kinds = {} THEN Err("InvalidObjectType")
        ELSE IF StrLen(parts[4]) # 2 * DIGEST_LEN THEN Err("InvalidHashLength")
        ELSE IF \E i \in 1..Len(parts[4]) : ~IsHex(parts[4][i]) THEN Err("InvalidHash")
        ELSE [st |-> "ok",
              swhid |-> Swhid_new(CHOOSE t \in Kinds : TRUE, hex_decode(parts[4]))]

(***************************************************************************)
(* directory.rs                                                            *)
(***************************************************************************)
PermFile == \o100644
PermExecutable == \o100755
PermSymlink == \o120000
PermDirectory == \o040000

\* from_mode with the execute bits looked at before the file type
from_mode_exec_first(mode) ==
    IF BitAnd(mode, \o111) # 0 THEN PermExecutable
    ELSE IF BitAnd(mode, \o170000) = \o040000 THEN PermDirectory
    ELSE IF BitAnd(mode, \o170000) = \o120000 THEN PermSymlink
    ELSE PermFile

from_mode(mode) ==
    LET t == BitAnd(mode, \o170000)
    IN  IF t = \o040000 THEN PermDirectory
        ELSE IF t = \o120000 THEN PermSymlink
        ELSE IF BitAnd(mode, \o111) # 0 THEN PermExecutable
        ELSE PermFile

should_exclude_str(name, patterns) == \E i \in 1..Len(patterns) : name = patterns[i]

should_exclude(name, patterns) == should_exclude_str(to_string_lossy(name), patterns)

\* the listing left in the order the host gave it
SortRaw_host_order(raw) == raw

\* raw_entries.sort_by(file_name): the listed names in byte order (a stable sort)
RECURSIVE SortRaw(_)
SortRaw(raw) ==
    IF raw = <<>> THEN <<>>
    ELSE LET init == SortRaw(SubSeq(raw, 1, Len(raw) - 1))
             e == raw[Len(raw)]
             k == Cardinality({i \in 1..Len(init) : cmp_bytes(init[i], e) <= 0})
         IN  SubSeq(init, 1, k) \o <<e>> \o SubSeq(init, k + 1, Len(init))

\* the comparator of entries.sort_by
entry_cmp(a, b) == cmp_bytes(a.name, b.name)

\* a stable sort, as slice::sort_by is: equal entries keep their order
RECURSIVE sort_by(_)
sort_by(entries) ==
    IF entries = <<>> THEN <<>>
    ELSE LET init == sort_by(SubSeq(entries, 1, Len(entries) - 1))
             e == entries[Len(entries)]
             k == Cardinality({i \in 1..Len(init) : entry_cmp(init[i], e) <= 0})
         IN  SubSeq(init, 1, k) \o <<e>> \o SubSeq(init, k + 1, Len(init))

MetaType(mode) ==
    IF BitAnd(mode, S_IFMT) = S_IFDIR THEN "Directory"
    ELSE IF BitAnd(mode, S_IFMT) = S_IFLNK THEN "Symlink"
    ELSE "File"

\* metadata that follows a link to what it names
metadata_of_target(entry_path) ==
    LET r == Stat(entry_path)
    IN  IF r.ok THEN fs[r.at].mode ELSE fs[Lstat(entry_path).at].mode

\* DirEntry::metadata: the st_mode of the entry itself, a link not followed
DirEntry_metadata(entry_path) == fs[Lstat(entry_path).at].mode

\* the metadata taken from what a link names when follow_symlinks is set
entry_metadata_follow(entry_path, follow_symlinks) ==
    IF follow_symlinks THEN metadata_of_target(entry_path) ELSE DirEntry_metadata(entry_path)

\* let metadata = if follow_symlinks { entry.metadata()? } else { entry.metadata()? }
entry_metadata(entry_path, follow_symlinks) ==
    IF follow_symlinks THEN DirEntry_metadata(entry_path) ELSE DirEntry_metadata(entry_path)

\* the first loop of from_disk over raw[i..]: the entries pushed, or the error
\* that ends the walk
RECURSIVE Collect(_, _, _, _, _)
Collect(path, raw, i, patterns, follow_symlinks) ==
    IF i > Len(raw) THEN [st |-> "ok", entries |-> <<>>]
    ELSE LET name_bytes == to_string_lossy(raw[i])
             entry_path == Append(path, raw[i])
             rest == Collect(path, raw, i + 1, patterns, follow_symlinks)
             metadata == entry_metadata(entry_path, follow_symlinks)
             entry_type == MetaType(metadata)
             permissions == from_mode(metadata)
             Push(target) ==
                 IF rest.st = "ok"
                 THEN [st |-> "ok",
                       entries |-> <<[name |-> name_bytes, entry_type |-> entry_type,
                                      permissions |-> permissions, target |-> target]>>
                                   \o rest.entries]
                 ELSE rest
             \* Content::from_file(&entry_path)?
             PushFile(c) == IF c.st = "ok" THEN Push(c.content.sha1_git) ELSE c
             \* if let Ok(target_path) = fs::read_link(&entry_path) { .. } else { continue }
             PushLink(t) ==
                 IF t.st = "ok"
                 THEN Push(Content_from_data(to_string_lossy(t.data)).sha1_git)
                 ELSE rest
         IN  IF should_exclude(name_bytes, patterns) THEN rest
             ELSE IF entry_type = "File" THEN PushFile(Content_from_file(entry_path))
             ELSE IF entry_type = "Symlink" THEN PushLink(read_link(entry_path))
             ELSE Push(ZERO_HASH)

\* the payload compute_hash builds, and the digest it returns and caches
\* perms_str with the directory mode written with its leading zero
perms_str_leading_zero(permissions) ==
    IF permissions = PermFile THEN <<49, 48, 48, 54, 52, 52>>
    ELSE IF permissions = PermExecutable THEN <<49, 48, 48, 55, 53, 53>>
    ELSE IF permissions = PermSymlink THEN <<49, 50, 48, 48, 48, 48>>
    ELSE <<48, 52, 48, 48, 48, 48>>

perms_str(permissions) ==
    IF permissions = PermFile THEN <<49, 48, 48, 54, 52, 52>>
    ELSE IF permissions = PermExecutable THEN <<49, 48, 48, 55, 53, 53>>
    ELSE IF permissions = PermSymlink THEN <<49, 50, 48, 48, 48, 48>>
    ELSE <<52, 48, 48, 48, 48>>

RECURSIVE components(_)
components(entries) ==
    IF entries = <<>> THEN <<>>
    ELSE LET entry == Head(entries)
         IN  Lit(perms_str(entry.permissions)) \o Lit(<<SP>>) \o Lit(entry.name)
                 \o Lit(<<NUL>>) \o entry.target \o components(Tail(entries))

None == <<>>

compute_hash(d) == IF d.hash # None THEN d.hash ELSE hash_git_object(TREE, components(d.entries))

\* self after compute_hash: the digest is stored on the first call
compute_hash_self_no_store(d) == d
compute_hash_self(d) == IF d.hash # None THEN d ELSE [d EXCEPT !.hash = compute_hash(d)]

Directory_swhid(d) == Swhid_new("dir", compute_hash(d))

RECURSIVE from_disk(_, _, _)
RECURSIVE Resolve(_, _, _, _)

\* the second loop of from_disk: every Directory entry gets the digest of the
\* directory built from path.join(entry.name)
Resolve(path, entries, patterns, follow_symlinks) ==
    IF entries = <<>> THEN [st |-> "ok", entries |-> <<>>]
    ELSE LET entry == Head(entries)
             child_dir == from_disk(Append(path, entry.name), patterns, follow_symlinks)
             rest == Resolve(path, Tail(entries), patterns, follow_symlinks)
         IN  IF entry.entry_type # "Directory"
             THEN IF rest.st = "ok"
                  THEN [st |-> "ok", entries |-> <<entry>> \o rest.entries]
                  ELSE rest
             ELSE IF child_dir.st # "ok" THEN child_dir
             ELSE IF rest.st # "ok" THEN rest
             ELSE [st |-> "ok",
                   entries |-> <<[entry EXCEPT !.target = compute_hash(child_dir.dir)]>>
                               \o rest.entries]

\* Ok(Self { entries, hash: None, path: Some(path.to_path_buf()) })
Directory_of(path, done) ==
    IF done.st # "ok" THEN done
    ELSE [st |-> "ok", dir |-> [entries |-> done.entries, hash |-> None, path |-> path]]

\* entries.sort_by(..) and the second loop, once the first loop has ended
from_collected(path, collected, exclude_patterns, follow_symlinks) ==
    IF collected.st # "ok" THEN collected
    ELSE Directory_of(path, Resolve(path, sort_by(collected.entries),
                                    exclude_patterns, follow_symlinks))

\* raw_entries.sort_by(|a, b| a.as_ref().unwrap() ..): a slice of two or more
\* elements has every element compared, and unwrap() on the Err panics; a
\* slice of one element is not compared at all
sort_unwraps_err(listing) == listing.failed /\ Len(listing.names) + 1 >= 2

\* raw_entries.sort_by(..) and the first loop, once fs::read_dir(path)? returned;
\* `entry_result?` returns the Err that is the only element
from_listing(path, listing, exclude_patterns, follow_symlinks) ==
    IF listing.st # "ok" THEN listing
    ELSE IF sort_unwraps_err(listing) THEN [st |-> "panic"]
    ELSE IF listing.failed THEN [st |-> "err", err |-> "Io"]
    ELSE from_collected(path,
                        Collect(path, SortRaw(listing.names), 1,
                                exclude_patterns, follow_symlinks),
                        exclude_patterns, follow_symlinks)

from_disk(path, exclude_patterns, follow_symlinks) ==
    from_listing(path, read_dir(path), exclude_patterns, follow_symlinks)

(***************************************************************************)
(* computer.rs                                                             *)
(***************************************************************************)
\* Ok(content.swhid()) and Ok(dir.swhid()), once the `?` let the object through
Ok_content_swhid(c) ==
    IF c.st = "ok" THEN [st |-> "ok", swhid |-> Content_swhid(c.content)] ELSE c
Ok_dir_swhid(d) ==
    IF d.st = "ok" THEN [st |-> "ok", swhid |-> Directory_swhid(d.dir)] ELSE d

compute_file_swhid(self, path) == Ok_content_swhid(Content_from_file(path))

compute_directory_swhid(self, path) ==
    Ok_dir_swhid(from_disk(path, self.exclude_patterns, self.follow_symlinks))

\* compute_swhid with `depth` calls of itself below it on the stack; a call the
\* stack has no room for ends the process
RECURSIVE compute_swhid_at(_, _, _)
compute_swhid_at(self, path, depth) ==
    IF depth > MaxStack THEN [st |-> "overflow"]
    ELSE IF is_symlink(path) THEN
        LET target == read_link(path)
        IN  IF target.st # "ok" THEN target
            ELSE IF self.follow_symlinks
            THEN compute_swhid_at(self, join(Parent(path), target.data), depth + 1)
            ELSE [st |-> "ok",
                  swhid |-> Content_swhid(Content_from_data(to_string_lossy(target.data)))]
    ELSE IF is_file(path) THEN compute_file_swhid(self, path)
    ELSE IF is_dir(path) THEN compute_directory_swhid(self, path)
    ELSE [st |-> "err", err |-> "InvalidInput"]

compute_swhid(self, path) == compute_swhid_at(self, path, 0)

\* verify_swhid that compares the digests only
verify_swhid_digest_only(self, path, expected_swhid) ==
    LET expected == Swhid_from_string(expected_swhid)
        actual == compute_swhid(self, path)
    IN  IF expected.st # "ok" THEN expected
        ELSE IF actual.st # "ok" THEN actual
        ELSE [st |-> "ok", value |-> expected.swhid.hash = actual.swhid.hash]

\* verify_swhid that computes first and reports a failure to compute as false
verify_swhid_compute_first(self, path, expected_swhid) ==
    LET expected == Swhid_from_string(expected_swhid)
        actual == compute_swhid(self, path)
    IN  IF actual.st # "ok" THEN [st |-> "ok", value |-> FALSE]
        ELSE IF expected.st # "ok" THEN expected
        ELSE [st |-> "ok", value |-> expected.swhid = actual.swhid]

\* Ok(expected == actual), once both `?` let their value through
Ok_equal(expected, actual) ==
    IF expected.st # "ok" THEN expected
    ELSE IF actual.st # "ok" THEN actual
    ELSE [st |-> "ok", value |-> expected.swhid = actual.swhid]

verify_swhid(self, path, expected_swhid) ==
    Ok_equal(Swhid_from_string(expected_swhid), compute_swhid(self, path))

(***************************************************************************)
(* The environment: it builds the filesystem before the library is called. *)
(***************************************************************************)
NoCall == [op |-> "none"]
NoDir == [live |-> FALSE]

Dirs == {p \in DOMAIN fs : FileType(fs[p]) = S_IFDIR}
Building == last = NoCall /\ dir = NoDir
\* no fault has been set up
Healthy == \A q \in DOMAIN fs : ~fs[q].bad /\ fs[q].eio = NoEio

CanAdd(d, n) ==
    /\ Building
    /\ Cardinality(DOMAIN fs) <= MaxNodes
    /\ Healthy
    /\ Len(d) < MaxDepth
    /\ ~Exists(Append(d, n))

Add(p, node) == fs' = [q \in DOMAIN fs \cup {p} |-> IF q = p THEN node ELSE fs[q]]

WriteFile(d, n, file) ==
    /\ CanAdd(d, n)
    /\ Add(Append(d, n), [mode |-> file.mode, data |-> file.data, bad |-> FALSE, eio |-> NoEio])
    /\ UNCHANGED <<order, dir, last>>

Mkdir(d, n) ==
    /\ CanAdd(d, n)
    /\ Add(Append(d, n), [mode |-> \o040755, data |-> <<>>, bad |-> FALSE, eio |-> NoEio])
    /\ UNCHANGED <<order, dir, last>>

Symlink(d, n, target) ==
    /\ CanAdd(d, n)
    /\ Add(Append(d, n), [mode |-> \o120777, data |-> target, bad |-> FALSE, eio |-> NoEio])
    /\ UNCHANGED <<order, dir, last>>

Mkfifo(d, n) ==
    /\ CanAdd(d, n)
    /\ Add(Append(d, n), [mode |-> \o010644, data |-> <<>>, bad |-> FALSE, eio |-> NoEio])
    /\ UNCHANGED <<order, dir, last>>

\* the medium under one file, link or directory goes bad: reading it fails
Fault(p) ==
    /\ Building
    /\ Healthy
    /\ FileType(fs[p]) # S_IFIFO
    /\ fs' = [fs EXCEPT ![p].bad = TRUE]
    /\ UNCHANGED <<order, dir, last>>

\* the medium under a directory goes bad past its first k entries: the
\* directory opens, readdir hands out k entries and fails on the next
FaultReaddir(p, k) ==
    /\ Building
    /\ Healthy
    /\ FileType(fs[p]) = S_IFDIR
    /\ k <= Cardinality(ChildNames(p))
    /\ fs' = [fs EXCEPT ![p].eio = <<k>>]
    /\ UNCHANGED <<order, dir, last>>

Build ==
    \/ \E d \in Dirs, n \in Names :
           \/ \E file \in Files : WriteFile(d, n, file)
           \/ Mkdir(d, n)
           \/ \E target \in Targets : Symlink(d, n, target)
           \/ Mkfifo(d, n)
    \/ \E p \in DOMAIN fs : Fault(p)
    \/ \E p \in DOMAIN fs, k \in 0..(MaxNodes + 1) : FaultReaddir(p, k)

(***************************************************************************)
(* The calls of the library.  `dir` is the Directory object the caller     *)
(* holds, `last` the last call and what it returned.  The filesystem does  *)
(* not change once the library has been called.                            *)
(***************************************************************************)
\* the paths a caller passes: every existing path and one that does not exist
CallPaths == DOMAIN fs \cup {<<N_dir>>}

\* the SwhidComputer objects the builder methods make
Computers == [follow_symlinks : BOOLEAN, exclude_patterns : PatternLists]

\* the Directory the caller holds after from_disk returned r
Held(r, held) ==
    IF r.st = "ok"
    THEN [live |-> TRUE, entries |-> r.dir.entries, hash |-> r.dir.hash, path |-> r.dir.path]
    ELSE held

CallFromDisk(path, exclude_patterns, follow_symlinks) ==
    /\ last = NoCall
    /\ last' = [op |-> "from_disk", path |-> path, patterns |-> exclude_patterns,
                follow |-> follow_symlinks, order |-> order,
                res |-> from_disk(path, exclude_patterns, follow_symlinks)]
    /\ dir' = Held(last'.res, dir)
    /\ UNCHANGED <<fs, order>>

\* compute_hash and swhid take &mut self: the object after the call holds the
\* digest; `cached` records what the object held when the call was made
CallComputeHash ==
    /\ dir.live
    /\ dir' = compute_hash_self(dir)
    /\ last' = [op |-> "compute_hash", value |-> compute_hash(dir), cached |-> dir.hash]
    /\ UNCHANGED <<fs, order>>

CallSwhid ==
    /\ dir.live
    /\ dir' = compute_hash_self(dir)
    /\ last' = [op |-> "swhid", value |-> Directory_swhid(dir), cached |-> dir.hash]
    /\ UNCHANGED <<fs, order>>

\* the accessors take &self and hand out what the object holds
CallEntries ==
    /\ dir.live
    /\ last.op # "entries"
    /\ last' = [op |-> "entries", value |-> dir.entries, cached |-> dir.hash]
    /\ UNCHANGED <<fs, order, dir>>

CallPath ==
    /\ dir.live
    /\ last.op # "path"
    /\ last' = [op |-> "path", value |-> dir.path, cached |-> dir.hash]
    /\ UNCHANGED <<fs, order, dir>>

CallComputeSwhid(self, path) ==
    /\ last = NoCall
    /\ last' = [op |-> "compute_swhid", self |-> self, path |-> path,
                res |-> compute_swhid(self, path), order |-> order]
    /\ UNCHANGED <<fs, order, dir>>

\* Between two invocations on the same filesystem the host changes the order
\* in which it lists directories.
Repeatable == last.op \in {"from_disk", "compute_swhid"} /\ "again" \notin DOMAIN last

Rehash ==
    /\ Repeatable
    /\ order = last.order
    /\ order' \in Orders \ {order}
    /\ UNCHANGED <<fs, dir, last>>

\* the caller makes the last call once more, with the same arguments
CallAgain ==
    /\ Repeatable
    /\ order # last.order
    /\ last' = [x \in DOMAIN last \cup {"again"} |->
                    IF x # "again" THEN last[x]
                    ELSE IF last.op = "from_disk"
                    THEN from_disk(last.path, last.patterns, last.follow)
                    ELSE compute_swhid(last.self, last.path)]
    /\ dir' = IF last.op = "from_disk" THEN Held(last'.again, dir) ELSE dir
    /\ UNCHANGED <<fs, order>>

\* the identifier strings a caller verifies a path against: the rendering of
\* what compute_swhid returns for it, the same with another kind, the all-zero
\* Content identifier and a string of version 2
ZeroId(version) ==
    Lit(<<115, 119, 104, 58>>) \o Lit(Dec(version)) \o Lit(<<58, 99, 110, 116, 58>>)
        \o [i \in 1..(2 * DIGEST_LEN) |-> <<"b", 48>>]

Renderings(actual) ==
    IF actual.st = "ok"
    THEN {Swhid_to_string(actual.swhid),
          Swhid_to_string([actual.swhid EXCEPT !.object_type = "rev"])}
    ELSE {}

VerifyStrings(self, path) == {ZeroId(1), ZeroId(2)} \cup Renderings(compute_swhid(self, path))

CallVerifySwhid(self, path, expected_swhid) ==
    /\ last = NoCall
    /\ last' = [op |-> "verify_swhid", self |-> self, path |-> path, s |-> expected_swhid,
                res |-> verify_swhid(self, path, expected_swhid)]
    /\ UNCHANGED <<fs, order, dir>>

Init == fs = (Root :> RootNode) /\ order = "asc" /\ dir = NoDir /\ last = NoCall

Next ==
    \/ Build
    \/ \E path \in CallPaths, patterns \in PatternLists, follow \in BOOLEAN :
           CallFromDisk(path, patterns, follow)
    \/ CallComputeHash
    \/ CallSwhid
    \/ CallEntries
    \/ CallPath
    \/ \E self \in Computers, path \in CallPaths : CallComputeSwhid(self, path)
    \/ Rehash
    \/ CallAgain
    \/ /\ last = NoCall
       /\ \E self \in Computers, path \in CallPaths :
              \E expected_swhid \in VerifyStrings(self, path) :
                  CallVerifySwhid(self, path, expected_swhid)

Spec == Init /\ [][Next]_vars

(***************************************************************************)
(* The identifier on its own: strings are parsed and identifiers rendered. *)
(* The strings are made of a namespace, a version, a kind code and a digest *)
(* field, right and wrong ones, and of strings that are not four fields.   *)
(***************************************************************************)
\* 20 bytes that use every hex digit
SomeDigest == [i \in 1..DIGEST_LEN |-> <<"b", (37 * i) % 256>>]
Digests == {ZERO_HASH, SomeDigest, sha1_git_hash(<<>>), sha1_git_hash(<<104, 105>>)}
Identifiers == {Swhid_new(t, d) : t \in ObjectTypes, d \in Digests}

ToUpper(chars) ==
    [i \in 1..Len(chars) |->
        IF chars[i][1] = "b" /\ chars[i][2] >= 97 THEN <<"b", chars[i][2] - 32>> ELSE chars[i]]

Namespaces == {<<115, 119, 104>>, <<83, 87, 72>>}
Versions == {<<49>>, <<50>>}
Codes == {ObjectType_as_str(t) : t \in ObjectTypes} \cup {<<111, 114, 105>>, <<67, 78, 84>>}
HexFields ==
    {hex_encode(d) : d \in Digests} \cup
    {ToUpper(hex_encode(SomeDigest)),
     SubSeq(hex_encode(ZERO_HASH), 2, 2 * DIGEST_LEN),
     Append(hex_encode(ZERO_HASH), <<"b", 48>>),
     Append(SubSeq(hex_encode(ZERO_HASH), 2, 2 * DIGEST_LEN), <<"b", 103>>)}
IdStrings ==
    {Lit(ns) \o Lit(<<58>>) \o Lit(v) \o Lit(<<58>>) \o Lit(c) \o Lit(<<58>>) \o h :
        ns \in Namespaces, v \in Versions, c \in Codes, h \in HexFields}
    \cup {Lit(<<105, 110, 118, 97, 108, 105, 100>>),
          ZeroId(1) \o Lit(<<58, 49>>),
          Lit(<<32>>) \o ZeroId(1),
          ZeroId(1) \o Lit(<<10>>)}

CallFromString(s) ==
    /\ last = NoCall
    /\ last' = [op |-> "from_string", s |-> s, res |-> Swhid_from_string(s)]
    /\ UNCHANGED <<fs, order, dir>>

CallToString(swhid) ==
    /\ last = NoCall
    /\ last' = [op |-> "to_string", swhid |-> swhid, value |-> Swhid_to_string(swhid)]
    /\ UNCHANGED <<fs, order, dir>>

NextSwhid ==
    \/ \E s \in IdStrings : CallFromString(s)
    \/ \E swhid \in Identifiers : CallToString(swhid)

SpecSwhid == Init /\ [][NextSwhid]_vars

(***************************************************************************)
(* The hasher and the content builder on their own: buffers are hashed,    *)
(* and written to a file that is then read.                                *)
(***************************************************************************)
\* the longest buffer of the bytes 00 and FF
MaxBuf == 3

RECURSIVE BuffersOf(_)
BuffersOf(n) ==
    IF n = 0 THEN {<<>>}
    ELSE BuffersOf(n - 1) \cup {Append(b, x) : b \in BuffersOf(n - 1), x \in {0, 255}}

\* every buffer of 00 and FF up to MaxBuf bytes, 9 to 12 times
\* the byte 'a', and two buffers that hold a flagged block
Buffers ==
    BuffersOf(MaxBuf)
    \cup {[i \in 1..n |-> 97] : n \in {9, 10, 11, 12}}
    \cup {NearCollisionBlock, <<0>> \o NearCollisionBlock \o <<255>>}

CallFromData(data) ==
    /\ last = NoCall
    /\ last' = [op |-> "from_data", data |-> data, res |-> Content_from_data(data),
                swhid |-> Content_swhid(Content_from_data(data))]
    /\ UNCHANGED <<fs, order, dir>>

CallSha1Hash(data) ==
    /\ last = NoCall
    /\ last' = [op |-> "sha1_hash", data |-> data, res |-> sha1_hash(data)]
    /\ UNCHANGED <<fs, order, dir>>

CallHashGitObject(git_type, data) ==
    /\ last = NoCall
    /\ last' = [op |-> "hash_git_object", git_type |-> git_type, data |-> data,
                res |-> hash_git_object(git_type, Lit(data))]
    /\ UNCHANGED <<fs, order, dir>>

\* fs::write(path, data) of the tests
WriteBuffer(n, data) ==
    /\ CanAdd(Root, n)
    /\ fs = (Root :> RootNode)
    /\ Add(<<n>>, [mode |-> \o100644, data |-> data, bad |-> FALSE, eio |-> NoEio])
    /\ UNCHANGED <<order, dir, last>>

CallFromFile(path) ==
    /\ last = NoCall
    /\ last' = [op |-> "from_file", path |-> path, res |-> Content_from_file(path)]
    /\ UNCHANGED <<fs, order, dir>>

NextContent ==
    \/ \E data \in Buffers : CallFromData(data)
    \/ \E data \in Buffers : CallSha1Hash(data)
    \/ \E data \in Buffers, git_type \in {BLOB, TREE} : CallHashGitObject(git_type, data)
    \/ \E data \in Buffers : WriteBuffer(N_dir_txt, data)
    \/ \E path \in CallPaths : CallFromFile(path)

SpecContent == Init /\ [][NextContent]_vars

(***************************************************************************)
(* The directory builder on trees of directories: the environment makes    *)
(* directories and files only, one node more than in Spec.                 *)
(***************************************************************************)
\* nodes such a tree holds besides its root
MaxTreeNodes == 3

CanGrow(d, n) ==
    /\ Building
    /\ Cardinality(DOMAIN fs) <= MaxTreeNodes
    /\ Len(d) < MaxDepth
    /\ ~Exists(Append(d, n))

TreeMkdir(d, n) ==
    /\ CanGrow(d, n)
    /\ Add(Append(d, n), [mode |-> \o040755, data |-> <<>>, bad |-> FALSE, eio |-> NoEio])
    /\ UNCHANGED <<order, dir, last>>

TreeWriteFile(d, n, file) ==
    /\ CanGrow(d, n)
    /\ Add(Append(d, n), [mode |-> file.mode, data |-> file.data, bad |-> FALSE, eio |-> NoEio])
    /\ UNCHANGED <<order, dir, last>>

NextTree ==
    \/ \E d \in Dirs, n \in Names : TreeMkdir(d, n)
    \/ \E d \in Dirs, n \in Names, file \in Files : TreeWriteFile(d, n, file)
    \/ \E path \in CallPaths, patterns \in PatternLists, follow \in BOOLEAN :
           CallFromDisk(path, patterns, follow)
    \/ CallComputeHash
    \/ CallSwhid

SpecTree == Init /\ [][NextTree]_vars

(***************************************************************************)
(* What the claims are stated over.                                        *)
(***************************************************************************)
\* the last call was a from_disk that returned Ok
WalkOk == last.op = "from_disk" /\ last.res.st = "ok"
WalkEntries == last.res.dir.entries
\* the directory from_disk listed, and its children on disk
WalkedDir == Stat(last.path).at
WalkedChild(n) == fs[Append(WalkedDir, n)]
IsSubdir(node) == node.mode \div 4096 = 4
IsLink(node) == node.mode \div 4096 = 10
IsRegular(node) == node.mode \div 4096 = 8
AnyExecBit(node) == \E k \in {1, 8, 64} : (node.mode \div k) % 2 = 1
\* a < b for byte strings
BytesLess(a, b) ==
    \E k \in 0..Len(a) :
        /\ k <= Len(b)
        /\ \A i \in 1..k : a[i] = b[i]
        /\ IF k = Len(a) THEN k < Len(b) ELSE k < Len(b) /\ a[k + 1] < b[k + 1]
\* the path the target string of the link at `path` names: from the root when
\* it starts with '/', else from the directory that holds the link
TargetPath(path) ==
    LET t == fs[Lstat(path).at].data
    IN  IF Head(t) = 47 THEN Components(t) ELSE SubSeq(path, 1, Len(path) - 1) \o Components(t)
\* the digest git gives a blob of these bytes
GitBlob(bytes) ==
    Sha1(Lit(<<98, 108, 111, 98, 32>>) \o Lit(Dec(Len(bytes))) \o Lit(<<0>>) \o Lit(bytes))

\* C1: the entries from_disk returns are in git tree order: of two entries
\* with different names, the one whose name (followed by '/' when it is a
\* subdirectory) is the smaller byte string comes first; "dir.txt" comes
\* before the subdirectory "dir".
C1_GitTreeOrder ==
    WalkOk =>
        \A i, j \in 1..Len(WalkEntries) :
            LET a == WalkEntries[i]
                b == WalkEntries[j]
                Key(e) == IF e.entry_type = "Directory" THEN Append(e.name, 47) ELSE e.name
            IN  (i < j /\ a.name # b.name) => BytesLess(Key(a), Key(b))

\* the record git writes for one entry, and the payload of a list of entries
C2_Record(e) ==
    LET Oct(n) == [i \in 1..(IF n < 32768 THEN 5 ELSE 6) |->
                      48 + ((n \div (8 ^ ((IF n < 32768 THEN 5 ELSE 6) - i))) % 8)]
    IN  Lit(Oct(e.permissions)) \o <<<<"b", 32>>>> \o Lit(e.name) \o <<<<"b", 0>>>> \o e.target

C2_Payload(entries) ==
    LET Upto[k \in 0..Len(entries)] ==
            IF k = 0 THEN <<>> ELSE Upto[k - 1] \o C2_Record(entries[k])
    IN  Upto[Len(entries)]

\* C2: compute_hash returns the digest of "tree <len>\0" followed by, for every
\* entry in stored order, the octal mode without leading zero, a space, the
\* name, a NUL and the 20 bytes of the target; no entries give the digest of
\* the empty payload.
C2_TreePayload ==
    last.op = "compute_hash" =>
        LET payload == C2_Payload(dir.entries)
        IN  /\ last.value = Sha1(Lit(<<116, 114, 101, 101, 32>>) \o Lit(Dec(ByteLen(payload)))
                                 \o <<<<"b", 0>>>> \o payload)
            /\ dir.entries = <<>> =>
                   last.value = Sha1(Lit(<<116, 114, 101, 101, 32, 48, 0>>))
            /\ \A i \in 1..Len(dir.entries) :
                   dir.entries[i].permissions \in {\o100644, \o100755, \o120000, \o40000}

\* a directory of two entries, one of them a subdirectory, has been hashed
C2_Witness ==
    /\ last.op = "compute_hash"
    /\ Len(dir.entries) = 2
    /\ \E i \in 1..2 : dir.entries[i].entry_type = "Directory"
    /\ \E i \in 1..2 : dir.entries[i].entry_type = "File"

\* the kind and the mode an lstat mode calls for
C3_Expected(node) ==
    IF IsSubdir(node) THEN [entry_type |-> "Directory", permissions |-> \o40000]
    ELSE IF IsLink(node) THEN [entry_type |-> "Symlink", permissions |-> \o120000]
    ELSE IF AnyExecBit(node) THEN [entry_type |-> "File", permissions |-> \o100755]
    ELSE [entry_type |-> "File", permissions |-> \o100644]

\* C3: every included child of the walked directory (but a link the host fails
\* to read, which the walk skips) has an entry whose kind
\* and mode follow its lstat mode (directory 40000, link 120000, regular file
\* with an execute bit 100755, other regular file 100644), and the kind and
\* the mode of every entry agree.
C3_KindAndMode ==
    WalkOk =>
        /\ \A n \in ChildNames(WalkedDir) :
               (/\ ~should_exclude(to_string_lossy(n), last.patterns)
                /\ ~(IsLink(WalkedChild(n)) /\ WalkedChild(n).bad)) =>
                   \E i \in 1..Len(WalkEntries) :
                       /\ WalkEntries[i].name = to_string_lossy(n)
                       /\ WalkEntries[i].entry_type = C3_Expected(WalkedChild(n)).entry_type
                       /\ WalkEntries[i].permissions = C3_Expected(WalkedChild(n)).permissions
        /\ \A i \in 1..Len(WalkEntries) :
               LET e == WalkEntries[i]
               IN  /\ e.entry_type = "Directory" <=> e.permissions = \o40000
                   /\ e.entry_type = "Symlink" <=> e.permissions = \o120000
                   /\ e.entry_type = "File" <=> e.permissions \in {\o100644, \o100755}

\* a walk that met a symbolic link (whose mode has every execute bit) and an
\* executable file
C3_Witness ==
    /\ WalkOk
    /\ \E i \in 1..Len(WalkEntries) : WalkEntries[i].permissions = \o120000
    /\ \E i \in 1..Len(WalkEntries) : WalkEntries[i].permissions = \o100755

\* C4: the name of every entry is the byte string of a filename of the walked
\* directory, also when that filename is no UTF-8.
C4_RawNames ==
    WalkOk =>
        /\ \A i \in 1..Len(WalkEntries) : WalkEntries[i].name \in ChildNames(WalkedDir)
        /\ \A n \in ChildNames(WalkedDir) :
               ~should_exclude(to_string_lossy(n), last.patterns) =>
                   \E i \in 1..Len(WalkEntries) : WalkEntries[i].name = n

\* C5: a Directory that from_disk returns holds no two entries of one name.
C5_NoDuplicateNames ==
    WalkOk =>
        \A i, j \in 1..Len(WalkEntries) :
            i # j => WalkEntries[i].name # WalkEntries[j].name

\* C6: a symbolic link among the included children has a Symlink entry whose
\* target is the blob digest of the bytes of its target string, whatever it
\* points to and whatever the follow_symlinks flag; the walk does not descend
\* through it.
C6_LinkTargetBytes ==
    WalkOk =>
        \A n \in ChildNames(WalkedDir) :
            (/\ IsLink(WalkedChild(n))
             /\ ~WalkedChild(n).bad
             /\ ~should_exclude(to_string_lossy(n), last.patterns)) =>
                \E i \in 1..Len(WalkEntries) :
                    /\ WalkEntries[i].name = to_string_lossy(n)
                    /\ WalkEntries[i].entry_type = "Symlink"
                    /\ WalkEntries[i].target = GitBlob(WalkedChild(n).data)

\* C7: a symbolic link whose target does not exist has no entry in the
\* Directory the walk returns.
C7_BrokenLinkOmitted ==
    WalkOk =>
        \A n \in ChildNames(WalkedDir) :
            (IsLink(WalkedChild(n)) /\ ~Lstat(TargetPath(Append(last.path, n))).ok) =>
                ~\E i \in 1..Len(WalkEntries) :
                    /\ WalkEntries[i].entry_type = "Symlink"
                    /\ WalkEntries[i].name = to_string_lossy(n)

\* shell-glob matching of a text by a pattern: '*' any text, '?' one
\* character, '[...]' one character of a set (ranges a-b, '!' negates)
RECURSIVE GlobMatch(_, _)
GlobMatch(pat, text) ==
    IF pat = <<>> THEN text = <<>>
    ELSE IF Head(pat) = 42
    THEN \E k \in 0..Len(text) : GlobMatch(Tail(pat), SubSeq(text, k + 1, Len(text)))
    ELSE IF text = <<>> THEN FALSE
    ELSE LET n == CharAt(text, 1).n
             after == SubSeq(text, n + 1, Len(text))
             first == IF Len(pat) >= 2 /\ pat[2] = 33 THEN 3 ELSE 2
             Closes == {j \in (first + 1)..Len(pat) : pat[j] = 93}
             close == CHOOSE j \in Closes : \A k \in Closes : j <= k
             set == SubSeq(pat, first, close - 1)
             InSet == \E i \in 1..Len(set) :
                          \/ n = 1 /\ set[i] = text[1]
                          \/ /\ n = 1 /\ i + 2 <= Len(set) /\ set[i + 1] = 45
                             /\ set[i] <= text[1] /\ text[1] <= set[i + 2]
         IN  IF Head(pat) = 63 THEN GlobMatch(Tail(pat), after)
             ELSE IF Head(pat) = 91 /\ Closes # {}
             THEN InSet # (first = 3) /\ GlobMatch(SubSeq(pat, close + 1, Len(pat)), after)
             ELSE Head(pat) = Head(text) /\ GlobMatch(Tail(pat), Tail(text))

\* C8: a child of the walked directory has no entry exactly when its filename
\* matches one of the patterns as a shell glob.
C8_GlobExclusion ==
    WalkOk =>
        \A n \in ChildNames(WalkedDir) :
            LET text == to_string_lossy(n)
                matched == \E k \in 1..Len(last.patterns) : GlobMatch(last.patterns[k], text)
                entered == \E i \in 1..Len(WalkEntries) : WalkEntries[i].name = text
            IN  ~WalkedChild(n).bad => (matched <=> ~entered)

\* the last call was compute_swhid
Computed == last.op = "compute_swhid"
ContentId(bytes) == [st |-> "ok", swhid |-> [version |-> 1, object_type |-> "cnt", hash |-> GitBlob(bytes)]]

\* C9: without follow_symlinks compute_swhid answers by the type of the path
\* itself: the Content identifier of a link's target string, the Content
\* identifier of a file's bytes, the Directory identifier of a directory's
\* tree, and InvalidInput for anything else.
C9_Dispatch ==
    (Computed /\ ~last.self.follow_symlinks) =>
        LET l == Lstat(last.path)
            node == fs[l.at]
            d == from_disk(last.path, last.self.exclude_patterns, FALSE)
        IN  IF l.ok /\ IsLink(node) THEN ~node.bad => last.res = ContentId(node.data)
            ELSE IF l.ok /\ IsRegular(node) THEN ~node.bad => last.res = ContentId(node.data)
            ELSE IF l.ok /\ IsSubdir(node) THEN
                IF d.st = "ok"
                THEN last.res = [st |-> "ok",
                                 swhid |-> [version |-> 1, object_type |-> "dir",
                                            hash |-> compute_hash(d.dir)]]
                ELSE last.res = d
            ELSE last.res = [st |-> "err", err |-> "InvalidInput"]

\* the links from a path on: where they end, or <<"cycle">> after more links
\* than the filesystem holds
RECURSIVE C10_End(_, _)
C10_End(path, n) ==
    IF ~(Lstat(path).ok /\ IsLink(fs[Lstat(path).at])) THEN <<"at", path>>
    ELSE IF n = 0 THEN <<"cycle">>
    ELSE C10_End(TargetPath(path), n - 1)

\* C10: with follow_symlinks compute_swhid on a link returns what it returns
\* on the link's target, a relative target taken in the directory that holds
\* the link and an absolute one from the root; a chain of links that ends at a
\* file gives that file's Content identifier, and one that ends at a missing
\* path gives InvalidInput.
C10_FollowsLinks ==
    (/\ Computed
     /\ last.self.follow_symlinks
     /\ Lstat(last.path).ok
     /\ IsLink(fs[Lstat(last.path).at])
     /\ \A q \in DOMAIN fs : ~fs[q].bad) =>
        LET end == C10_End(last.path, Cardinality(DOMAIN fs))
        IN  /\ last.res = compute_swhid(last.self, TargetPath(last.path))
            /\ (end[1] = "at" /\ ~Lstat(end[2]).ok) =>
                   last.res = [st |-> "err", err |-> "InvalidInput"]
            /\ (end[1] = "at" /\ Lstat(end[2]).ok /\ IsRegular(fs[Lstat(end[2]).at])) =>
                   last.res = ContentId(fs[Lstat(end[2]).at].data)

\* a link with a relative target has been followed to the file beside it
C10_Witness ==
    /\ Computed
    /\ last.self.follow_symlinks
    /\ Len(last.path) = 1
    /\ Lstat(last.path).ok
    /\ IsLink(fs[Lstat(last.path).at])
    /\ Head(fs[Lstat(last.path).at].data) # 47
    /\ Stat(last.path).ok
    /\ IsRegular(fs[Stat(last.path).at])
    /\ last.res = ContentId(fs[Stat(last.path).at].data)

\* the last call was verify_swhid
Verified == last.op = "verify_swhid"

\* C11: when compute_swhid succeeds on the path with identifier i and the
\* string is a valid identifier, verify_swhid returns Ok(true) if the string
\* parses to an identifier with the version, the kind and the digest of i, and
\* Ok(false) if not; the rendering of i verifies, the all-zero identifier does
\* not (and is no error).
C11_VerifyMatches ==
    Verified =>
        LET actual == compute_swhid(last.self, last.path)
            expected == Swhid_from_string(last.s)
            same == /\ expected.swhid.version = actual.swhid.version
                    /\ expected.swhid.object_type = actual.swhid.object_type
                    /\ expected.swhid.hash = actual.swhid.hash
        IN  (actual.st = "ok" /\ expected.st = "ok") =>
                /\ last.res = [st |-> "ok", value |-> same]
                /\ last.s = Swhid_to_string(actual.swhid) => last.res.value
                /\ last.s = ZeroId(1) => ~last.res.value

\* a directory has been verified against the rendering of its own identifier,
\* and against the same digest under another kind
C11_Witness ==
    /\ Verified
    /\ last.res = [st |-> "ok", value |-> TRUE]
    /\ Lstat(last.path).ok
    /\ IsSubdir(fs[Lstat(last.path).at])
    /\ ChildNames(last.path) # {}

\* C12: verify_swhid returns the parse error of an invalid string whatever the
\* path is (missing, unreadable), and for a valid string the Io error of a
\* file or directory the host fails to read; it never answers Ok(false) then.
C12_ErrorsFirst ==
    Verified =>
        LET expected == Swhid_from_string(last.s)
            l == Lstat(last.path)
            unreadable == /\ l.ok
                          /\ fs[l.at].bad
                          /\ IsRegular(fs[l.at]) \/ IsSubdir(fs[l.at])
        IN  /\ expected.st = "err" => last.res = expected
            /\ (expected.st = "ok" /\ unreadable) => last.res = [st |-> "err", err |-> "Io"]
            /\ last.s = ZeroId(2) => last.res = [st |-> "err", err |-> "InvalidVersion"]

\* an invalid string has been verified against a file the host fails to read
C12_Witness ==
    /\ Verified
    /\ last.s = ZeroId(2)
    /\ last.res.st = "err"
    /\ Lstat(last.path).ok
    /\ IsRegular(fs[Lstat(last.path).at])
    /\ fs[Lstat(last.path).at].bad

\* a canonical identifier string: "swh:1:", a kind code, ":" and 40 characters
\* of 0-9 a-f
IsCanonical(s) ==
    \E t \in ObjectTypes :
        LET head == Lit(<<115, 119, 104, 58, 49, 58>>) \o Lit(ObjectType_as_str(t)) \o Lit(<<58>>)
            hex == SubSeq(s, Len(head) + 1, Len(s))
        IN  /\ Len(s) >= Len(head)
            /\ SubSeq(s, 1, Len(head)) = head
            /\ \/ Len(hex) = 1 /\ hex[1][1] = "hex"
               \/ /\ Len(hex) = 40
                  /\ \A i \in 1..40 :
                         /\ hex[i][1] = "b"
                         /\ hex[i][2] \in (48..57) \cup (97..102)

\* C13: a canonical identifier string parses, and rendering what it parses to
\* gives the string back; an identifier built by Swhid::new renders to a string
\* that parses to the same identifier (kind and 20-byte digest).
C13_RoundTrip ==
    /\ last.op = "from_string" =>
           /\ IsCanonical(last.s) => last.res.st = "ok"
           /\ last.res.st = "ok" =>
                  /\ Swhid_to_string(last.res.swhid) = last.s
                  /\ ByteLen(last.res.swhid.hash) = 20
    /\ last.op = "to_string" =>
           /\ IsCanonical(last.value)
           /\ Swhid_from_string(last.value) = [st |-> "ok", swhid |-> last.swhid]

\* an identifier whose digest uses the hex digits a-f has been rendered
C13_Witness ==
    /\ last.op = "to_string"
    /\ last.swhid.hash = SomeDigest
    /\ last.swhid.object_type = "dir"

\* the decimal digits of a length below 1000, written out
Decimal(n) ==
    IF n < 10 THEN <<48 + n>>
    ELSE IF n < 100 THEN <<48 + (n \div 10), 48 + (n % 10)>>
    ELSE <<48 + (n \div 100), 48 + ((n \div 10) % 10), 48 + (n % 10)>>

BlobMessage(b) == <<98, 108, 111, 98, 32>> \o Decimal(Len(b)) \o <<0>> \o b

\* C14: Content::from_data(b) keeps b and its length, and its digest is
\* sha1_git_hash(b), hash_git_object("blob", b) and the sha1 of "blob ", the
\* decimal length without leading zeros, a NUL and b; its identifier is the
\* Content identifier of that digest; from_file on a file that holds b gives
\* the same digest.
C14_BlobDigest ==
    /\ last.op = "from_data" =>
           /\ last.res.data = last.data
           /\ last.res.length = Len(last.data)
           /\ last.res.sha1_git = sha1_git_hash(last.data)
           /\ last.res.sha1_git = hash_git_object(BLOB, Lit(last.data))
           /\ last.res.sha1_git = sha1_hash(BlobMessage(last.data))
           /\ last.data = <<>> =>
                  last.res.sha1_git = sha1_hash(<<98, 108, 111, 98, 32, 48, 0>>)
           /\ last.swhid = [version |-> 1, object_type |-> "cnt", hash |-> last.res.sha1_git]
    /\ (last.op = "from_file" /\ last.path \in DOMAIN fs /\ IsRegular(fs[last.path])) =>
           /\ last.res.st = "ok"
           /\ last.res.content = Content_from_data(fs[last.path].data)
           /\ last.res.content.sha1_git = sha1_hash(BlobMessage(fs[last.path].data))

\* a buffer of 100 bytes has been hashed
C14_Witness ==
    /\ last.op = "from_data"
    /\ Len(last.data) = 10

C16_Determinism ==
    "again" \in DOMAIN last =>
        /\ last.again.st = last.res.st
        /\ last.op = "compute_swhid" => last.again = last.res
        /\ (last.op = "from_disk" /\ last.res.st = "ok") =>
               Directory_swhid(last.again.dir) = Directory_swhid(last.res.dir)
        /\ (last.op = "from_disk" /\ last.res.st # "ok") => last.again = last.res

\* a directory of two children has been walked a second time, the host now
\* listing names in descending order
C16_Witness ==
    /\ WalkOk
    /\ "again" \in DOMAIN last
    /\ order = "desc"
    /\ Len(last.again.dir.entries) = 2

\* C17: in a Directory from_disk returns, every included subdirectory of the
\* walked directory has a Directory entry whose target is the tree digest of
\* that subdirectory, built with the same patterns; no Directory entry keeps
\* the all-zero placeholder or has the digest of another directory.
C17_SubdirTargets ==
    WalkOk =>
        /\ \A i \in 1..Len(WalkEntries) :
               WalkEntries[i].entry_type = "Directory" => WalkEntries[i].target # ZERO_HASH
        /\ \A n \in ChildNames(WalkedDir) :
               LET child == from_disk(Append(WalkedDir, n), last.patterns, last.follow)
               IN  (/\ IsSubdir(WalkedChild(n))
                    /\ ~should_exclude(to_string_lossy(n), last.patterns)
                    /\ child.st = "ok") =>
                       \E i \in 1..Len(WalkEntries) :
                           /\ WalkEntries[i].entry_type = "Directory"
                           /\ WalkEntries[i].name = to_string_lossy(n)
                           /\ WalkEntries[i].target = compute_hash(child.dir)

\* the walk of the directory at `path` meets a file it reads or a directory it
\* lists that the host fails to read, at once or while it hands out the entries
\* (a subdirectory is opened by the name of its entry), and: it opens a FIFO,
\* on which the read does not return
RECURSIVE WalkFails(_, _)
WalkFails(path, patterns) ==
    LET r == Stat(path)
    IN  \/ ~r.ok
        \/ ~IsSubdir(fs[r.at])
        \/ fs[r.at].bad
        \/ fs[r.at].eio # NoEio
        \/ \E n \in ChildNames(r.at) :
               LET child == fs[Append(r.at, n)]
               IN  /\ ~should_exclude(to_string_lossy(n), patterns)
                   /\ \/ IsRegular(child) /\ child.bad
                      \/ IsSubdir(child) /\ WalkFails(Append(path, to_string_lossy(n)), patterns)

RECURSIVE WalkBlocks(_, _)
WalkBlocks(path, patterns) ==
    LET r == Stat(path)
    IN  /\ r.ok
        /\ IsSubdir(fs[r.at])
        /\ \E n \in ChildNames(r.at) :
               LET child == fs[Append(r.at, n)]
               IN  /\ ~should_exclude(to_string_lossy(n), patterns)
                   /\ \/ child.mode \div 4096 = 1
                      \/ IsSubdir(child) /\ WalkBlocks(Append(path, to_string_lossy(n)), patterns)

\* C18: when a file the walk reads or a subdirectory it lists, at any depth,
\* fails to be read, from_disk and compute_swhid on the directory return the
\* Io error and no Directory or identifier (short of a FIFO in the tree, on
\* which the walk may hang before it gets there).
C18_FailureIsFatal ==
    LET failed(res, path, patterns) ==
            /\ res.st # "ok"
            /\ ~WalkBlocks(path, patterns) => res = [st |-> "err", err |-> "Io"]
            /\ res.st = "err" => res = [st |-> "err", err |-> "Io"]
    IN  /\ (last.op = "from_disk" /\ WalkFails(last.path, last.patterns)) =>
               failed(last.res, last.path, last.patterns)
        /\ (/\ Computed
            /\ Lstat(last.path).ok
            /\ IsSubdir(fs[Lstat(last.path).at])
            /\ WalkFails(last.path, last.self.exclude_patterns)) =>
               failed(last.res, last.path, last.self.exclude_patterns)

\* C19: from_disk returns the same (entries, hence digest, or error) with the
\* follow_symlinks flag set and unset, a link among the children being a
\* Symlink entry in both cases, and compute_swhid on a path that is no
\* symbolic link returns the same for computers that differ in the flag only.
C19_FlagHasNoEffect ==
    /\ last.op = "from_disk" =>
           /\ last.res = from_disk(last.path, last.patterns, ~last.follow)
           /\ last.res.st = "ok" =>
                  \A n \in ChildNames(WalkedDir) :
                      (/\ IsLink(WalkedChild(n))
                       /\ ~WalkedChild(n).bad
                       /\ ~should_exclude(to_string_lossy(n), last.patterns)) =>
                          \E i \in 1..Len(WalkEntries) :
                              /\ WalkEntries[i].name = to_string_lossy(n)
                              /\ WalkEntries[i].entry_type = "Symlink"
    /\ (Computed /\ ~is_symlink(last.path)) =>
           last.res = compute_swhid([last.self EXCEPT !.follow_symlinks = ~@], last.path)

\* a directory that holds a link to a file beside it has been walked with the
\* flag set
C19_Witness ==
    /\ WalkOk
    /\ last.follow
    /\ \E n \in ChildNames(WalkedDir) :
           /\ IsLink(WalkedChild(n))
           /\ Stat(Append(WalkedDir, n)).ok
           /\ IsRegular(fs[Stat(Append(WalkedDir, n)).at])

\* the operations of a Directory object once it is built
DirectoryOps == {"compute_hash", "swhid", "entries", "path"}
DigestOf(l) == IF l.op = "swhid" THEN l.value.hash ELSE l.value

\* C20: the digest of a Directory is computed once and cached: a call of
\* compute_hash or swhid leaves the digest stored and returns it, a call made
\* when a digest is already stored returns that stored digest, the stored
\* digest is always the tree digest of the entries the object holds, and no
\* call of compute_hash, swhid, entries or path changes the entries or a
\* stored digest.
C20_CachedOnce ==
    /\ []((dir.live /\ dir.hash # None) =>
              dir.hash = hash_git_object(TREE, components(dir.entries)))
    /\ [](last.op \in {"compute_hash", "swhid"} =>
              /\ dir.hash # None
              /\ DigestOf(last) = dir.hash
              /\ last.cached # None => DigestOf(last) = last.cached)
    /\ [][(dir.live /\ last'.op \in DirectoryOps) =>
              /\ dir'.entries = dir.entries
              /\ dir.hash # None => dir'.hash = dir.hash]_vars

\* a later call: compute_hash on a non-empty directory whose digest is stored
C20_Witness ==
    /\ last.op = "compute_hash"
    /\ last.cached # None
    /\ Len(dir.entries) >= 2
    /\ last.value = last.cached

\* the public operations that take a path
PathOps == {"from_disk", "compute_swhid", "verify_swhid"}
Returned(res) == res.st \in {"ok", "err"}

\* C21: from_disk, compute_swhid and verify_swhid end by returning a value or
\* a SwhidError on every filesystem, and when the host reports an error for
\* an entry while it enumerates the directory from_disk is called on,
\* from_disk returns the Io error.
C21_FlatErrors ==
    /\ last.op \in PathOps => Returned(last.res)
    /\ (/\ last.op = "from_disk"
        /\ Stat(last.path).ok
        /\ IsSubdir(fs[WalkedDir])
        /\ fs[WalkedDir].eio # NoEio) =>
           last.res = [st |-> "err", err |-> "Io"]

\* what processing the child at index i of the sorted names alone ends with:
\* reading a file, walking a subdirectory; a link or an excluded child is
\* passed over
ChildOutcome(path, n, patterns, follow) ==
    LET child == fs[Append(Stat(path).at, n)]
    IN  IF should_exclude(to_string_lossy(n), patterns) \/ IsLink(child)
        THEN [st |-> "ok"]
        ELSE IF IsSubdir(child)
        THEN from_disk(Append(path, to_string_lossy(n)), patterns, follow)
        ELSE Content_from_file(Append(path, n))

\* C22: the walk processes the children in comparator order, depth first: when
\* children of the directory from_disk is called on fail to be processed,
\* from_disk ends as the first of them in this order does.
C22_FirstFailureFirst ==
    (/\ last.op = "from_disk"
     /\ read_dir(last.path).st = "ok"
     /\ ~read_dir(last.path).failed) =>
        LET names == SortRaw(read_dir(last.path).names)
            outcome(i) == ChildOutcome(last.path, names[i], last.patterns, last.follow)
            failing == {i \in 1..Len(names) : outcome(i).st # "ok"}
        IN  failing # {} =>
                \E i \in failing : /\ \A j \in failing : i <= j
                                    /\ last.res = outcome(i)

\* the path compute_swhid goes on with from a link, and: k such steps from
\* `from`, each from a link, lead to `to`
LinkStep(path) == join(Parent(path), read_link(path).data)

RECURSIVE LinkLeads(_, _, _)
LinkLeads(from, to, k) ==
    /\ k > 0
    /\ is_symlink(from)
    /\ read_link(from).st = "ok"
    /\ \/ LinkStep(from) = to
       \/ LinkLeads(LinkStep(from), to, k - 1)

\* the path is a link of a cycle of links: a link to itself, or links that
\* point at each other
OnLinkCycle(path) == LinkLeads(path, path, Cardinality(DOMAIN fs))

\* C23: compute_swhid with follow_symlinks on a link that belongs to a cycle
\* of links ends with a value or an error.
C23_CyclesTerminate ==
    (Computed /\ last.self.follow_symlinks /\ OnLinkCycle(last.path)) =>
        Returned(last.res)

====
